---- MODULE Spec2Model ----
(***************************************************************************)
(* Model of the workflow engine of app/engine.py: the ToolRegistry, the    *)
(* graph store, the run store and the run_graph coroutine.  A run_graph    *)
(* call is cut at its only suspension point, the await of the tool call    *)
(* (engine.py line 114 / 38): RunGraph runs the coroutine from its entry   *)
(* to the first await (or to its return), Resume runs it from one await to *)
(* the next (or to its return).  Several coroutines may be suspended at    *)
(* the same time; the event loop resumes them in any order.  A tool that   *)
(* does not suspend is a RunGraph or Resume step followed at once by the   *)
(* Resume step of the same run.  Values of the state mapping are integers, *)
(* except that the key xs holds a reference to a list object kept in heap: *)
(* a callable may write to it in place, and dict(...) copies the reference. *)
(***************************************************************************)
EXTENDS Integers, Sequences, FiniteSets, TLC

\* ------------------------------------------------------------------ bounds
\* Spec, FairLive, SpecCond: run_graph calls, create_graph calls, and the
\* largest max_steps passed.
MaxRuns == 1
MaxGraphs == 1
MaxSteps == 2
\* SpecConc, SpecNested: run_graph calls that may be in flight together.
MaxConcRuns == 2

\* ------------------------------------------------------------ value domains
\* Optional[str] None (models.py: next, true_next, false_next, next_node).
NoneRef == "<None>"

\* The empty dict.
EmptyMap == [k \in {} |-> 0]

\* The register(name, func) calls that are made.  Each callable is a function
\* of the state mapping it is called with (see ToolApply).
RegisterCalls == {<<"t1", "inc">>, <<"t1", "boom">>, <<"t2", "nothing">>}

\* Mappings passed as initial_state.
InitialStates == {EmptyMap, [n |-> 1, x |-> 7]}

\* The list object a caller holds, by its address in heap.  A mapping's value
\* under the key xs is the address of a list (a reference); every other value
\* is an integer.
CallerList == 1

\* Mappings passed as initial_state whose key xs refers to the caller's list.
NestedStates == {[xs |-> CallerList], [n |-> 1, xs |-> CallerList]}

\* ---------------------------------------------------------------- models.py
Cond(key, op, value, true_next, false_next) ==
    [key |-> key, op |-> op, value |-> value,
     true_next |-> true_next, false_next |-> false_next]

\* condition is Optional[Condition]: <<>> is None, <<c>> is a Condition.
Node(id, tool_name, next, condition) ==
    [id |-> id, tool_name |-> tool_name, next |-> next, condition |-> condition]

GraphCreateRequest(name, start_node, nodes) ==
    [name |-> name, start_node |-> start_node, nodes |-> nodes]

StepLog(step, node_id, tool_name, next_node, state) ==
    [step |-> step, node_id |-> node_id, tool_name |-> tool_name,
     next_node |-> next_node, state |-> state]

\* The graph requests callers submit.
\* Two nodes in sequence: A, then B, which has no successor.
ReqLinear ==
    GraphCreateRequest("linear", "A",
        << Node("A", "t1", "B", <<>>), Node("B", "t2", NoneRef, <<>>) >>)

\* A repeats itself until n >= 2; its true_next Z is no node of the graph, and
\* its next is not used.
ReqCond ==
    GraphCreateRequest("cond", "A",
        << Node("A", "t1", NoneRef, <<Cond("n", "ge", 2, "Z", "A")>>) >>)

\* A's condition orders the key x, which no tool writes, against a number: with
\* x < 8 the walk ends at A.
ReqCondLt ==
    GraphCreateRequest("condlt", "A",
        << Node("A", "t1", "A", <<Cond("x", "lt", 8, NoneRef, "Z")>>) >>)

\* start_node is no node of the request.
ReqBadStart ==
    GraphCreateRequest("badstart", "Z", << Node("A", "t1", NoneRef, <<>>) >>)

\* A's condition tests with ne the key y, which no tool writes and no initial
\* state holds; its true_next is the empty string.
ReqNe ==
    GraphCreateRequest("ne", "A",
        << Node("A", "t1", NoneRef, <<Cond("y", "ne", 1, "", "A")>>) >>)

\* A's condition tests the same key with eq; its false_next is None.
ReqEq ==
    GraphCreateRequest("eq", "A",
        << Node("A", "t1", NoneRef, <<Cond("y", "eq", 1, "A", NoneRef)>>) >>)

GraphRequests == {ReqLinear, ReqCond, ReqCondLt, ReqBadStart}

\* ------------------------------------------------------------------- state
VARIABLES
    tools,      \* ToolRegistry._tools: tool name -> callable
    graphs,     \* WorkflowEngine.graphs: sequence of GraphDef, graph id = index
    runs,       \* WorkflowEngine.runs: sequence of RunRecord with the locals
                \* of its run_graph coroutine, run id = index
    response,   \* what the last synchronous call returned or raised
    heap        \* the list objects mappings refer to: address -> contents

vars == <<tools, graphs, runs, response, heap>>

\* The ValueError raised by create_graph (line 71), run_graph (line 89) and
\* get_run (line 168), each with its message.
StartNodeError == "ValueError: start_node must be one of the node ids"
GraphNotFound == "ValueError: Graph not found"
RunNotFound == "ValueError: Run not found"

\* ------------------------------------------------------------- dict helpers
\* dict.get(key): <<>> is None, <<v>> is the value.
Get(state, key) == IF key \in DOMAIN state THEN <<state[key]>> ELSE <<>>

\* A merge that keeps the value of a key the state already holds.
UpdateKeepOld(state, result) ==
    [k \in (DOMAIN state) \cup (DOMAIN result) |->
        IF k \in DOMAIN state THEN state[k] ELSE result[k]]

\* dict.update(result)
Update(state, result) ==
    [k \in (DOMAIN state) \cup (DOMAIN result) |->
        IF k \in DOMAIN result THEN result[k] ELSE state[k]]

\* ------------------------------------------------------------ tool callables
\* What calling the callable fn with the mapping state produces: it raises, or
\* it returns None (<<>>) or a mapping (<<m>>).
\*   inc:     n = state.get("n", 0); return {"n": n + 1}
\*   nothing: return None if "x" in state else {}
\*   push:    state["xs"].append(len(state["xs"])); return None
\*   boom:    raise RuntimeError
ToolApply(fn, state) ==
    CASE fn = "push" /\ "xs" \in DOMAIN state -> [raised |-> FALSE, result |-> <<>>]
      [] fn = "inc" ->
           [raised |-> FALSE,
            result |-> << [n |-> (IF "n" \in DOMAIN state THEN state["n"] ELSE 0) + 1] >>]
      [] fn = "nothing" ->
           [raised |-> FALSE,
            result |-> IF "x" \in DOMAIN state THEN <<>> ELSE <<EmptyMap>>]
      [] OTHER -> [raised |-> TRUE, result |-> <<>>]

\* What calling the callable fn with the mapping state does to the objects the
\* mapping refers to: push appends in place to the list under xs.
ToolEffect(fn, state, h) ==
    IF fn = "push" /\ "xs" \in DOMAIN state
    THEN [h EXCEPT ![state["xs"]] = Append(@, Len(@))]
    ELSE h

\* ToolRegistry.call, line 39: `return result or {}`.
ResultOrEmpty(result) == IF result = <<>> THEN EmptyMap ELSE result[1]

\* --------------------------------------------------------------- conditions
\* Python's ordering operators raise TypeError when an operand is None.
Comparable(left, right) == left # <<>> /\ right # <<>>

\* An _eval_condition whose ordering operators are false on None.
EvalConditionNoneIsFalse(cond, left, right) ==
    IF cond.op \in {"lt", "le", "gt", "ge"} /\ ~Comparable(left, right)
    THEN [exc |-> "", val |-> FALSE]
    ELSE CASE cond.op = "lt" -> [exc |-> "", val |-> left[1] < right[1]]
           [] cond.op = "le" -> [exc |-> "", val |-> left[1] <= right[1]]
           [] cond.op = "gt" -> [exc |-> "", val |-> left[1] > right[1]]
           [] cond.op = "ge" -> [exc |-> "", val |-> left[1] >= right[1]]
           [] cond.op = "eq" -> [exc |-> "", val |-> left = right]
           [] cond.op = "ne" -> [exc |-> "", val |-> left # right]
           [] OTHER -> [exc |-> "ValueError", val |-> FALSE]

\* _eval_condition: [exc |-> "" or the exception raised, val |-> the result].
EvalCondition(cond, left, right) ==
    IF cond.op \in {"lt", "le", "gt", "ge"} /\ ~Comparable(left, right)
    THEN [exc |-> "TypeError", val |-> FALSE]
    ELSE CASE cond.op = "lt" -> [exc |-> "", val |-> left[1] < right[1]]
           [] cond.op = "le" -> [exc |-> "", val |-> left[1] <= right[1]]
           [] cond.op = "gt" -> [exc |-> "", val |-> left[1] > right[1]]
           [] cond.op = "ge" -> [exc |-> "", val |-> left[1] >= right[1]]
           [] cond.op = "eq" -> [exc |-> "", val |-> left = right]
           [] cond.op = "ne" -> [exc |-> "", val |-> left # right]
           [] OTHER -> [exc |-> "ValueError", val |-> FALSE]

\* A _decide_next that falls back to node.next when the condition is false.
DecideNextFallsBack(node, state) ==
    IF node.condition = <<>>
    THEN [exc |-> "", val |-> node.next]
    ELSE LET cond == node.condition[1]
             res == EvalCondition(cond, Get(state, cond.key), <<cond.value>>)
         IN IF res.exc # "" THEN [exc |-> res.exc, val |-> NoneRef]
            ELSE IF res.val THEN [exc |-> "", val |-> cond.true_next]
            ELSE [exc |-> "", val |-> node.next]

\* _decide_next: [exc |-> "" or the exception raised, val |-> the next node].
DecideNext(node, state) ==
    IF node.condition = <<>>
    THEN [exc |-> "", val |-> node.next]
    ELSE LET cond == node.condition[1]
             left == Get(state, cond.key)
             right == <<cond.value>>
             res == EvalCondition(cond, left, right)
         IN IF res.exc # "" THEN [exc |-> res.exc, val |-> NoneRef]
            ELSE IF res.val THEN [exc |-> "", val |-> cond.true_next]
            ELSE [exc |-> "", val |-> cond.false_next]

\* ------------------------------------------------------------- create_graph
RECURSIVE NodesById(_)
\* {n.id: n for n in req.nodes}: a later node of the same id replaces an earlier.
NodesById(nodes) ==
    IF nodes = <<>> THEN [k \in {} |-> 0]
    ELSE LET n == nodes[Len(nodes)]
             rest == NodesById(SubSeq(nodes, 1, Len(nodes) - 1))
         IN [k \in (DOMAIN rest) \cup {n.id} |-> IF k = n.id THEN n ELSE rest[k]]

GraphDef(req) ==
    [name |-> req.name, start_node |-> req.start_node, nodes |-> NodesById(req.nodes)]

\* ---------------------------------------------------------------- run_graph
\* `except ValueError`, as the endpoints of main.py catch.
CatchesValueErrorOnly(exc) == exc = "ValueError"

\* `except Exception` (line 133) catches every exception class raised in a walk.
Catches(exc) == exc \in {"KeyError", "ValueError", "TypeError", "ToolError"}

\* A try/except inside the loop body: the run is marked failed and the loop
\* goes on.
RunFailContinue(run, exc) == [run EXCEPT !.status = "failed", !.error = exc]

\* An exception raised inside the try block (lines 108-134).
RunFail(run, exc) ==
    IF Catches(exc)
    THEN [run EXCEPT !.status = "failed", !.pc = "returned", !.error = exc]
    ELSE [run EXCEPT !.pc = "raised", !.error = exc]

\* A loop test that forgets the terminal successor.
LoopContinuesPastEnd(current, step_counter, max_steps) == step_counter < max_steps

\* A loop test that is off by one.
LoopContinuesOffByOne(current, step_counter, max_steps) ==
    current # NoneRef /\ step_counter <= max_steps

\* A loop that tests its budget only after the first iteration.
LoopContinuesOnceAtLeast(current, step_counter, max_steps) ==
    current # NoneRef /\ (step_counter = 0 \/ step_counter < max_steps)

\* Line 109: the loop test.
LoopContinues(current, step_counter, max_steps) ==
    current # NoneRef /\ step_counter < max_steps

\* A step counter that is never incremented.
NextStepCounterStuck(step_counter) == step_counter

\* Line 110
NextStepCounter(step_counter) == step_counter + 1

\* Lines 109-114: from the loop test to the await of the tool call.
Advance(run, graph, reg) ==
    IF ~LoopContinues(run.current, run.step_counter, run.max_steps)
    THEN [run EXCEPT !.status = "completed", !.pc = "returned"]
    ELSE LET r1 == [run EXCEPT !.step_counter = NextStepCounter(@)]
         IN IF run.current \notin DOMAIN graph.nodes
            THEN RunFail(r1, "KeyError")
            ELSE LET node == graph.nodes[run.current]
                 IN IF node.tool_name \notin DOMAIN reg
                    THEN RunFail(r1, "ValueError")
                    ELSE [r1 EXCEPT !.pc = "await",
                                    !.node = <<node>>,
                                    !.pending = <<ToolApply(reg[node.tool_name], r1.state)>>,
                                    !.calls = Append(@, <<node.id, reg[node.tool_name]>>)]

\* The StepLog appended before _decide_next is called.
FailedStepLogged(run, state1, node) ==
    [run EXCEPT !.state = state1,
                !.log = Append(@, StepLog(run.step_counter, node.id, node.tool_name,
                                          NoneRef, state1))]

\* Lines 115-118: what a step whose _decide_next raises leaves in the record:
\* the state the tool's result was merged into, and no StepLog.
FailedStep(run, state1, node) == [run EXCEPT !.state = state1]

\* A loop body that logs the successor _decide_next resolved and goes on at
\* node.next.
AfterToolFollowsNext(run) ==
    LET node == run.node[1]
        outcome == run.pending[1]
        done == [run EXCEPT !.outs = Append(@, outcome)]
    IN IF outcome.raised
       THEN RunFail(done, "ToolError")
       ELSE LET result == ResultOrEmpty(outcome.result)
                state1 == IF result # EmptyMap THEN Update(run.state, result) ELSE run.state
                nxt == DecideNext(node, state1)
            IN IF nxt.exc # ""
               THEN RunFail(FailedStep(done, state1, node), nxt.exc)
               ELSE [done EXCEPT !.state = state1,
                                 !.log = Append(@, StepLog(run.step_counter, node.id,
                                                           node.tool_name, nxt.val, state1)),
                                 !.current = node.next]

\* Lines 114-130: from the tool's outcome to the end of the loop body.
AfterTool(run) ==
    LET node == run.node[1]
        outcome == run.pending[1]
        done == [run EXCEPT !.outs = Append(@, outcome)]
    IN IF outcome.raised
       THEN RunFail(done, "ToolError")
       ELSE LET result == ResultOrEmpty(outcome.result)
                state1 == IF result # EmptyMap THEN Update(run.state, result) ELSE run.state
                nxt == DecideNext(node, state1)
            IN IF nxt.exc # ""
               THEN RunFail(FailedStep(done, state1, node), nxt.exc)
               ELSE [done EXCEPT !.state = state1,
                                 !.log = Append(@, StepLog(run.step_counter, node.id,
                                                           node.tool_name, nxt.val, state1)),
                                 !.current = nxt.val]

\* Lines 91-106: the RunRecord (graph_id, status, state, log; its id is its
\* index in runs) and the coroutine's locals (current, step_counter, max_steps;
\* node and pending are the node being executed and the outcome of its tool
\* call in flight; pc is "await" while suspended, then "returned" or "raised").
\* initial_state, calls (node id and callable of each tool call), outs (the
\* outcome of each tool call that is over) and error (the exception raised in
\* the walk) record what happened; the engine reads none of them.
NewRun(graph_id, graph, initial_state, max_steps) ==
    [graph_id |-> graph_id, status |-> "running", state |-> initial_state, log |-> <<>>,
     current |-> graph.start_node, step_counter |-> 0, max_steps |-> max_steps,
     pc |-> "entry", node |-> <<>>, pending |-> <<>>,
     initial_state |-> initial_state, calls |-> <<>>, outs |-> <<>>, error |-> ""]

\* Line 36: the heap after the tool call the coroutine of run is suspended in,
\* h being the heap before the call.
HeapAfterCall(run, h) ==
    IF run.pc = "await"
    THEN ToolEffect(run.calls[Len(run.calls)][2], run.state, h)
    ELSE h

\* ------------------------------------------------------------------ actions
\* The caller's list is empty.
InitHeap == << <<>> >>

Init ==
    /\ tools = [k \in {} |-> 0]
    /\ graphs = <<>>
    /\ runs = <<>>
    /\ response = "none"
    /\ heap = InitHeap

\* A registry in which the first binding of a name stays.
RegisterKeepsFirst(name, fn) ==
    /\ tools' = [k \in (DOMAIN tools) \cup {name} |->
                    IF k \in DOMAIN tools THEN tools[k] ELSE fn]
    /\ response' = "ok"
    /\ UNCHANGED <<graphs, runs, heap>>

\* ToolRegistry.register
Register(name, fn) ==
    /\ tools' = [k \in (DOMAIN tools) \cup {name} |-> IF k = name THEN fn ELSE tools[k]]
    /\ response' = "ok"
    /\ UNCHANGED <<graphs, runs, heap>>

\* A create_graph that stores the definition before it checks start_node.
CreateGraphStoresFirst(req) ==
    /\ graphs' = Append(graphs, GraphDef(req))
    /\ response' = IF req.start_node \notin DOMAIN NodesById(req.nodes)
                   THEN StartNodeError ELSE "ok"
    /\ UNCHANGED <<tools, runs, heap>>

\* WorkflowEngine.create_graph
CreateGraph(req) ==
    IF req.start_node \notin DOMAIN NodesById(req.nodes)
    THEN /\ response' = StartNodeError
         /\ UNCHANGED <<tools, graphs, runs, heap>>
    ELSE /\ graphs' = Append(graphs, GraphDef(req))
         /\ response' = "ok"
         /\ UNCHANGED <<tools, runs, heap>>

\* A run_graph that creates and stores its record before it looks the graph up.
RunGraphRecordsFirst(graph_id, initial_state, max_steps) ==
    IF graph_id \notin DOMAIN graphs
    THEN /\ runs' = Append(runs, NewRun(graph_id, [start_node |-> NoneRef],
                                        initial_state, max_steps))
         /\ response' = GraphNotFound
         /\ UNCHANGED <<tools, graphs, heap>>
    ELSE LET run == Advance(NewRun(graph_id, graphs[graph_id], initial_state, max_steps),
                            graphs[graph_id], tools)
         IN /\ runs' = Append(runs, run)
            /\ heap' = HeapAfterCall(run, heap)
            /\ response' = "ok"
            /\ UNCHANGED <<tools, graphs>>

\* WorkflowEngine.run_graph, from the call to the first await or the return.
RunGraph(graph_id, initial_state, max_steps) ==
    IF graph_id \notin DOMAIN graphs
    THEN /\ response' = GraphNotFound
         /\ UNCHANGED <<tools, graphs, runs, heap>>
    ELSE LET run == Advance(NewRun(graph_id, graphs[graph_id], initial_state, max_steps),
                            graphs[graph_id], tools)
         IN /\ runs' = Append(runs, run)
            /\ heap' = HeapAfterCall(run, heap)
            /\ response' = "ok"
            /\ UNCHANGED <<tools, graphs>>

\* A resumption with the state mapping kept per graph instead of per run: the
\* merged state shows in every suspended run of the same graph.
ResumeSharedState(r) ==
    /\ r \in DOMAIN runs
    /\ runs[r].pc = "await"
    /\ LET r1 == AfterTool(runs[r])
           r2 == IF r1.pc = "await" THEN Advance(r1, graphs[r1.graph_id], tools) ELSE r1
       IN /\ runs' = [q \in DOMAIN runs |->
                        IF q = r THEN r2
                        ELSE IF runs[q].graph_id = r1.graph_id /\ runs[q].pc = "await"
                             THEN [runs[q] EXCEPT !.state = r1.state]
                             ELSE runs[q]]
          /\ heap' = IF r1.pc = "await" THEN HeapAfterCall(r2, heap) ELSE heap
    /\ UNCHANGED <<tools, graphs, response>>

\* WorkflowEngine.run_graph, resumed when the awaited tool call is over.
Resume(r) ==
    /\ r \in DOMAIN runs
    /\ runs[r].pc = "await"
    /\ LET r1 == AfterTool(runs[r])
           r2 == IF r1.pc = "await" THEN Advance(r1, graphs[r1.graph_id], tools) ELSE r1
       IN /\ runs' = [runs EXCEPT ![r] = r2]
          /\ heap' = IF r1.pc = "await" THEN HeapAfterCall(r2, heap) ELSE heap
    /\ UNCHANGED <<tools, graphs, response>>

\* A run store that a record enters only when its walk is over.
GetRunResultFinishedOnly(run_id) ==
    IF run_id \notin DOMAIN runs \/ runs[run_id].pc = "await"
    THEN [exc |-> RunNotFound, val |-> <<>>]
    ELSE [exc |-> "", val |-> <<runs[run_id]>>]

\* What get_run(run_id) raises (exc) or returns (val, the record of the store).
GetRunResult(run_id) ==
    IF run_id \notin DOMAIN runs
    THEN [exc |-> RunNotFound, val |-> <<>>]
    ELSE [exc |-> "", val |-> <<runs[run_id]>>]

\* WorkflowEngine.get_run; the response keeps that a record was returned.
GetRun(run_id) ==
    /\ response' = IF GetRunResult(run_id).exc # "" THEN GetRunResult(run_id).exc ELSE "run"
    /\ UNCHANGED <<tools, graphs, runs, heap>>

\* ----------------------------------------------------------- specifications
\* No run_graph coroutine is suspended in a tool call.
Idle == \A r \in DOMAIN runs : runs[r].pc # "await"

\* The engine from construction, driven by a caller that awaits each run_graph
\* call before it starts the next one (SpecConc has the concurrent callers).
Next ==
    \/ \E c \in RegisterCalls : Register(c[1], c[2])
    \/ \E req \in GraphRequests :
          /\ Len(graphs) < MaxGraphs
          /\ CreateGraph(req)
    \/ \E g \in 1..(MaxGraphs + 1), s \in InitialStates, m \in (-1)..MaxSteps :
          /\ Len(runs) < MaxRuns
          /\ Idle
          /\ RunGraph(g, s, m)
    \/ \E r \in DOMAIN runs : Resume(r)
    \/ \E r \in 1..(MaxRuns + 1) : GetRun(r)

Spec == Init /\ [][Next]_vars

\* An engine after startup with three graphs created, whose caller starts runs
\* one after the other while tools are re-registered.  The event loop resumes every coroutine
\* whose awaited tool call is over (the tools of ToolApply all return or raise).
InitLive ==
    /\ tools = [k \in {"t1", "t2"} |-> IF k = "t1" THEN "inc" ELSE "nothing"]
    /\ graphs = << GraphDef(ReqLinear), GraphDef(ReqCond), GraphDef(ReqCondLt) >>
    /\ runs = <<>>
    /\ response = "none"
    /\ heap = InitHeap

NextLive ==
    \/ \E c \in RegisterCalls : Register(c[1], c[2])
    \/ \E g \in DOMAIN graphs, s \in InitialStates, m \in 0..MaxSteps :
          /\ Len(runs) < MaxRuns
          /\ Idle
          /\ RunGraph(g, s, m)
    \/ \E r \in DOMAIN runs : Resume(r)

FairLive ==
    InitLive /\ [][NextLive]_vars /\ \A r \in 1..MaxRuns : WF_vars(Resume(r))

\* An engine after startup with the three graphs whose conditions test a key
\* the state may lack, whose callers start runs while tools are re-registered
\* and runs are looked up.
InitCond ==
    /\ tools = [k \in {"t1"} |-> "inc"]
    /\ graphs = << GraphDef(ReqCondLt), GraphDef(ReqNe), GraphDef(ReqEq) >>
    /\ runs = <<>>
    /\ response = "none"
    /\ heap = InitHeap

NextCond ==
    \/ \E c \in {<<"t1", "inc">>, <<"t1", "boom">>} : Register(c[1], c[2])
    \/ \E g \in DOMAIN graphs, s \in InitialStates, m \in 0..MaxSteps :
          /\ Len(runs) < MaxRuns
          /\ RunGraph(g, s, m)
    \/ \E r \in DOMAIN runs : Resume(r)
    \/ \E r \in 1..(MaxRuns + 1) : GetRun(r)

SpecCond == InitCond /\ [][NextCond]_vars

\* A caller that keeps up to MaxConcRuns run_graph coroutines of graph 1 in
\* flight on an engine whose tools are registered and whose example graph is
\* created (main.py startup_event), while tools are re-registered, graphs are
\* submitted and runs are looked up.
InitConc ==
    /\ tools = [k \in {"t1", "t2"} |-> IF k = "t1" THEN "inc" ELSE "nothing"]
    /\ graphs = << GraphDef(ReqCond) >>
    /\ runs = <<>>
    /\ response = "none"
    /\ heap = InitHeap

NextConc ==
    \/ \E c \in {<<"t1", "inc">>, <<"t1", "boom">>} : Register(c[1], c[2])
    \/ \E req \in {ReqBadStart, ReqLinear} :
          /\ Len(graphs) <= MaxGraphs
          /\ CreateGraph(req)
    \/ \E s \in InitialStates, m \in 1..MaxSteps :
          /\ Len(runs) < MaxConcRuns
          /\ RunGraph(1, s, m)
    \/ \E r \in DOMAIN runs : Resume(r)
    \/ \E r \in DOMAIN runs : GetRun(r)

SpecConc == InitConc /\ [][NextConc]_vars

\* Callers that pass mappings referring to one list object, to runs of a graph
\* whose node A repeats itself, on an engine whose tool t1 appends to that list
\* in place or is re-registered as inc.  Budgets go up to MaxSteps + 1, so that
\* a tool call follows a step whose log entry has been seen.
InitNested ==
    /\ tools = [k \in {"t1"} |-> "push"]
    /\ graphs = << GraphDef(ReqCond) >>
    /\ runs = <<>>
    /\ response = "none"
    /\ heap = InitHeap

NextNested ==
    \/ \E c \in {<<"t1", "inc">>, <<"t1", "push">>} : Register(c[1], c[2])
    \/ \E s \in NestedStates, m \in 1..(MaxSteps + 1) :
          /\ Len(runs) < MaxConcRuns
          /\ RunGraph(1, s, m)
    \/ \E r \in DOMAIN runs : Resume(r)
    \/ \E r \in DOMAIN runs : GetRun(r)

SpecNested == InitNested /\ [][NextNested]_vars

\* ------------------------------------------------------------------- claims
Final(run) == run.status \in {"completed", "failed"}

\* C1: in every reachable state, whether the run is running, completed or
\* failed, the i-th log entry of every run (counting from 1) has step = i:
\* steps start at 1 and increase by one, without gaps or repeats.
C1_StepNumbers ==
    \A r \in DOMAIN runs :
        \A i \in DOMAIN runs[r].log : runs[r].log[i].step = i

\* A completed run with two log entries.
C1_Witness ==
    \E r \in DOMAIN runs :
        /\ runs[r].status = "completed"
        /\ Len(runs[r].log) = 2
        /\ runs[r].log[1].step = 1 /\ runs[r].log[2].step = 2

\* C2: a run's status only moves running -> completed or running -> failed.
\* Every record in the run store has one of the three statuses; a record that is
\* already final when it first appears made no tool call (it was created
\* running and finished before any suspension); records are never removed;
\* and no step (of that run, of another run, get_run, create_graph, register)
\* changes a status that is completed or failed.
C2_StatusMachine ==
    /\ [](\A r \in DOMAIN runs : runs[r].status \in {"running", "completed", "failed"})
    /\ [][ /\ DOMAIN runs \subseteq DOMAIN runs'
           /\ \A r \in DOMAIN runs' :
                IF r \in DOMAIN runs
                THEN Final(runs[r]) => runs'[r].status = runs[r].status
                ELSE runs'[r].status = "running" \/ runs'[r].calls = <<>> ]_vars

\* One run has failed after a logged step while another run, started from a
\* different initial state, is still running and has logged a step.
C2_Witness ==
    \E r1, r2 \in DOMAIN runs :
        /\ runs[r1].status = "failed" /\ Len(runs[r1].log) >= 1
        /\ runs[r2].status = "running" /\ Len(runs[r2].log) >= 1
        /\ response = StartNodeError

\* The walk of a returned run resolved no terminal successor and raised nothing.
NeverTerminalNorError(run) ==
    /\ run.error = ""
    /\ \A i \in DOMAIN run.log : run.log[i].next_node # NoneRef

\* C3: for max_steps >= 1, a run_graph call that is over and whose walk neither
\* resolved a terminal successor nor raised made exactly max_steps tool calls,
\* logged exactly max_steps entries and is completed.
C3_BudgetEnforced ==
    \A r \in DOMAIN runs :
        (/\ runs[r].max_steps >= 1
         /\ runs[r].pc # "await"
         /\ NeverTerminalNorError(runs[r]))
        => /\ runs[r].status = "completed"
           /\ Len(runs[r].log) = runs[r].max_steps
           /\ Len(runs[r].calls) = runs[r].max_steps

\* A run of the looping node A stopped by a budget of two steps: both entries
\* are for A and the successor resolved last is a node, not None.
C3_Witness ==
    \E r \in DOMAIN runs :
        /\ runs[r].status = "completed"
        /\ runs[r].max_steps = 2
        /\ Len(runs[r].log) = 2
        /\ runs[r].log[1].node_id = "A" /\ runs[r].log[1].next_node = "A"
        /\ runs[r].log[2].node_id = "A" /\ runs[r].log[2].next_node # NoneRef

\* The walk of the run visited pairwise different nodes, every tool it called
\* was registered and returned, and the successor resolved last is None.
AcyclicToEnd(run) ==
    /\ run.log # <<>>
    /\ run.log[Len(run.log)].next_node = NoneRef
    /\ \A i, j \in DOMAIN run.calls : i # j => run.calls[i][1] # run.calls[j][1]
    /\ \A i \in DOMAIN run.outs : ~run.outs[i].raised

\* C4: every run_graph call eventually leaves status running, and a call whose
\* walk followed an acyclic path to a node without successor, with every tool
\* registered and returning, ends completed with as many log entries as nodes
\* visited (tool calls made).
C4_AcyclicTerminates ==
    /\ \A r \in 1..MaxRuns :
          (r \in DOMAIN runs) ~> (r \in DOMAIN runs /\ runs[r].status # "running")
    /\ [](\A r \in DOMAIN runs :
            (AcyclicToEnd(runs[r]) /\ runs[r].pc # "await")
            => /\ runs[r].status = "completed"
               /\ Len(runs[r].log) = Len(runs[r].calls))

\* The linear graph walked to its end: A, then B, which has no successor.
C4_Witness ==
    \E r \in DOMAIN runs :
        /\ graphs[runs[r].graph_id].name = "linear"
        /\ runs[r].status = "completed"
        /\ AcyclicToEnd(runs[r])
        /\ Len(runs[r].log) = 2

\* C5: an error met during the walk (unregistered tool: ValueError; node id not
\* in the graph: KeyError; a tool raising: ToolError; a condition on
\* incomparable operands: TypeError) never leaves run_graph: the call returns
\* the record with status failed, the failing step is the last one for which a
\* tool was looked up or called, and the record never changes afterwards.
C5_ErrorsCaught ==
    /\ [](\A r \in DOMAIN runs :
            /\ runs[r].pc # "raised"
            /\ runs[r].error # "" =>
                 /\ runs[r].status = "failed"
                 /\ runs[r].pc = "returned"
                 /\ Len(runs[r].calls) =
                       IF runs[r].error \in {"KeyError", "ValueError"}
                       THEN runs[r].step_counter - 1
                       ELSE runs[r].step_counter)
    /\ [][\A r \in DOMAIN runs : runs[r].error # "" => runs'[r] = runs[r]]_vars

\* A walk that reached a node id missing from the graph after one logged step.
C5_Witness ==
    \E r \in DOMAIN runs :
        /\ runs[r].error = "KeyError"
        /\ runs[r].status = "failed"
        /\ runs[r].pc = "returned"
        /\ Len(runs[r].log) = 1

\* C6: a run that failed at its k-th step (k = step_counter >= 1) has exactly
\* the k-1 log entries of the steps before it, in order (entry i is step i, for
\* the i-th node visited), and none for the failing node.
C6_PartialLog ==
    \A r \in DOMAIN runs :
        runs[r].status = "failed" =>
            /\ runs[r].step_counter >= 1
            /\ Len(runs[r].log) = runs[r].step_counter - 1
            /\ \A i \in DOMAIN runs[r].log :
                  /\ runs[r].log[i].step = i
                  /\ runs[r].log[i].node_id = runs[r].calls[i][1]

\* A run that failed at its second step, in the tool: two tools were called and
\* only the first step is logged.
C6_Witness ==
    \E r \in DOMAIN runs :
        /\ runs[r].status = "failed"
        /\ runs[r].error = "ToolError"
        /\ runs[r].step_counter = 2 /\ Len(runs[r].calls) = 2 /\ Len(runs[r].log) = 1

\* C7: the state of a failed run is the state snapshot of its last log entry,
\* or the initial state if the log is empty, whatever the point of the failing
\* step at which the error was raised.
C7_StateOfLastSuccessfulStep ==
    \A r \in DOMAIN runs :
        runs[r].status = "failed" =>
            runs[r].state = IF runs[r].log = <<>>
                            THEN runs[r].initial_state
                            ELSE runs[r].log[Len(runs[r].log)].state

\* The steps of the run whose tool returned a mapping holding key k.
Writers(run, k) ==
    {i \in DOMAIN run.outs :
        /\ ~run.outs[i].raised
        /\ run.outs[i].result # <<>>
        /\ k \in DOMAIN run.outs[i].result[1]}

LastOf(S) == CHOOSE i \in S : \A j \in S : j <= i

\* The state before step i of the run, as the log has it.
StateBefore(run, i) == IF i = 1 THEN run.initial_state ELSE run.log[i - 1].state

\* C8: after a completed run every tool called has a log entry; the keys of the
\* state are those of the initial state and those some tool returned (none is
\* removed); a key no tool returned holds its initial value and any other key
\* the value of the last tool that returned it; and a step whose tool returned
\* None or an empty mapping is logged with the state unchanged.
C8_MergeIsOverwrite ==
    \A r \in DOMAIN runs :
        runs[r].status = "completed" =>
            LET run == runs[r]
                written == {k \in {"n", "x", "m"} : Writers(run, k) # {}}
            IN /\ Len(run.log) = Len(run.outs)
               /\ DOMAIN run.state = (DOMAIN run.initial_state) \cup written
               /\ \A k \in DOMAIN run.state :
                     run.state[k] =
                        IF k \in written
                        THEN run.outs[LastOf(Writers(run, k))].result[1][k]
                        ELSE run.initial_state[k]
               /\ \A i \in DOMAIN run.log :
                     (run.outs[i].result = <<>> \/ run.outs[i].result = <<EmptyMap>>)
                     => run.log[i].state = StateBefore(run, i)

\* The linear graph run from {n: 1, x: 7}: the first tool overwrote n, x kept
\* its initial value, the second tool returned None and its step is logged
\* with the state unchanged.
C8_Witness ==
    \E r \in DOMAIN runs :
        /\ runs[r].status = "completed"
        /\ runs[r].initial_state = [n |-> 1, x |-> 7]
        /\ runs[r].state = [n |-> 2, x |-> 7]
        /\ Len(runs[r].log) = 2
        /\ runs[r].outs[2].result = <<>>
        /\ runs[r].log[2].state = runs[r].log[1].state

\* `left op value`, left being <<>> for a key the state lacks.
Holds(op, left, value) ==
    CASE op = "eq" -> left = <<value>>
      [] op = "ne" -> left # <<value>>
      [] op = "lt" -> left # <<>> /\ left[1] < value
      [] op = "le" -> left # <<>> /\ left[1] <= value
      [] op = "gt" -> left # <<>> /\ left[1] > value
      [] op = "ge" -> left # <<>> /\ left[1] >= value

\* C9: the next_node of every log entry is the node's next when the node has no
\* condition; when it has one, it is true_next if `state[key] op value` holds
\* on the entry's state (the state after the tool's output was merged) and
\* false_next otherwise, whatever the node's next is.
C9_TransitionRule ==
    \A r \in DOMAIN runs :
        \A i \in DOMAIN runs[r].log :
            LET e == runs[r].log[i]
                node == graphs[runs[r].graph_id].nodes[e.node_id]
            IN IF node.condition = <<>>
               THEN e.next_node = node.next
               ELSE LET c == node.condition[1]
                    IN e.next_node =
                          IF Holds(c.op, Get(e.state, c.key), c.value)
                          THEN c.true_next
                          ELSE c.false_next

\* Node A (n ge 2, true_next Z, false_next A, next None) logged twice by one
\* run: with n = 1 it resolved false_next, with n = 2 true_next.
C9_Witness ==
    \E r \in DOMAIN runs :
        /\ graphs[runs[r].graph_id].name = "cond"
        /\ Len(runs[r].log) = 2
        /\ runs[r].log[1].state["n"] = 1 /\ runs[r].log[1].next_node = "A"
        /\ runs[r].log[2].state["n"] = 2 /\ runs[r].log[2].next_node = "Z"

RECURSIVE Replay(_, _, _, _, _, _, _)
\* run_graph executed alone, without suspension, on the callables fns (one per
\* tool call): the state, log and status it has when fns is used up.
Replay(graph, state, log, current, step_counter, max_steps, fns) ==
    IF ~LoopContinues(current, step_counter, max_steps)
    THEN [state |-> state, log |-> log, status |-> "completed"]
    ELSE IF current \notin DOMAIN graph.nodes
    THEN [state |-> state, log |-> log, status |-> "failed"]
    ELSE IF fns = <<>>
    THEN [state |-> state, log |-> log, status |-> "running"]
    ELSE LET node == graph.nodes[current]
             out == ToolApply(Head(fns), state)
             result == ResultOrEmpty(out.result)
             state1 == IF result # EmptyMap THEN Update(state, result) ELSE state
             nxt == DecideNext(node, state1)
         IN IF out.raised
            THEN [state |-> state, log |-> log, status |-> "failed"]
            ELSE IF nxt.exc # ""
            THEN [state |-> state1, log |-> log, status |-> "failed"]
            ELSE Replay(graph, state1,
                        Append(log, StepLog(NextStepCounter(step_counter), node.id,
                                            node.tool_name, nxt.val, state1)),
                        nxt.val, NextStepCounter(step_counter), max_steps, Tail(fns))

\* The callables of the tool calls of the run that are over.
FnsDone(run) == [i \in 1..Len(run.outs) |-> run.calls[i][2]]

\* C10: whatever the interleaving of the runs of a graph at their tool calls,
\* the state, log and status of every run are, in every reachable state, those
\* of run_graph executed alone from the run's own initial state with the run's
\* own tool calls: nothing another run wrote shows in them.
C10_RunsIsolated ==
    \A r \in DOMAIN runs :
        LET run == runs[r]
            graph == graphs[run.graph_id]
            alone == Replay(graph, run.initial_state, <<>>, graph.start_node, 0,
                            run.max_steps, FnsDone(run))
        IN /\ run.state = alone.state
           /\ run.log = alone.log
           /\ run.status = alone.status

\* Two runs of graph 1 from different initial states: the second was started
\* and has logged its step while the first, one step logged, is suspended in
\* its second tool call.
C10_Witness ==
    /\ Len(runs) >= 2
    /\ runs[1].graph_id = runs[2].graph_id
    /\ runs[1].initial_state = EmptyMap
    /\ runs[1].pc = "await" /\ Len(runs[1].log) = 1 /\ runs[1].state = [n |-> 1]
    /\ runs[2].initial_state = [n |-> 1, x |-> 7]
    /\ Len(runs[2].log) = 1 /\ runs[2].state = [n |-> 2, x |-> 7]

\* C11: a run is in the run store, with status running, from before its first
\* tool call: whenever a run_graph coroutine is suspended in a tool call (from
\* the first call until the run finishes), get_run(run_id) raises nothing and
\* returns that run's record, whose status is running and whose log holds one
\* entry for each tool call that is over, in order.
C11_VisibleWhileRunning ==
    \A r \in DOMAIN runs :
        (runs[r].pc = "await" /\ runs[r].calls # <<>>) =>
            LET got == GetRunResult(r)
            IN /\ got.exc = ""
               /\ got.val # <<>>
               /\ got.val[1].graph_id = runs[r].graph_id
               /\ got.val[1].status = "running"
               /\ Len(got.val[1].log) = Len(runs[r].calls) - 1
               /\ \A i \in DOMAIN got.val[1].log :
                     /\ got.val[1].log[i].step = i
                     /\ got.val[1].log[i].node_id = runs[r].calls[i][1]

\* get_run has just returned the record of the only run, which is suspended in
\* its second tool call with one step logged.
C11_Witness ==
    /\ Len(runs) = 1
    /\ runs[1].pc = "await" /\ runs[1].status = "running"
    /\ Len(runs[1].calls) = 2 /\ Len(runs[1].log) = 1
    /\ response = "run"

\* C12: a successor that is None or the empty string ends the walk: a step that
\* resolved next_node to either is the last step of its run (no further tool is
\* looked up or called, no further step is counted) and the run, once over, is
\* completed.
C12_EmptySuccessorIsTerminal ==
    \A r \in DOMAIN runs :
        \A i \in DOMAIN runs[r].log :
            runs[r].log[i].next_node \in {NoneRef, ""} =>
                /\ i = Len(runs[r].log)
                /\ runs[r].step_counter = i
                /\ Len(runs[r].calls) = i
                /\ runs[r].pc # "await" => runs[r].status = "completed"

\* The value of a mapping as a reader sees it: a reference is followed to the
\* contents the list has in heap h.
Deref(m, h) == [k \in DOMAIN m |-> IF k = "xs" THEN h[m[k]] ELSE m[k]]

\* C13: the log is append-only and its snapshots are by value: no later step of
\* the run (a tool call, one that appends in place to a list the state refers
\* to included, or a merge) removes an entry or changes the step, node_id,
\* tool_name, next_node or the state snapshot, as read, of an entry that is
\* already in the run's log.
C13_LogEntriesFrozen ==
    [][\A r \in DOMAIN runs :
         \A i \in DOMAIN runs[r].log :
            runs'[r] # runs[r] =>
            /\ i \in DOMAIN runs'[r].log
            /\ runs'[r].log[i].step = runs[r].log[i].step
            /\ runs'[r].log[i].node_id = runs[r].log[i].node_id
            /\ runs'[r].log[i].tool_name = runs[r].log[i].tool_name
            /\ runs'[r].log[i].next_node = runs[r].log[i].next_node
            /\ Deref(runs'[r].log[i].state, heap') = Deref(runs[r].log[i].state, heap)
      ]_vars

\* The ids of the nodes a request supplies.
NodeIds(req) == {req.nodes[i].id : i \in DOMAIN req.nodes}

\* C14: create_graph with a start_node that is the id of no supplied node
\* raises the start_node error and leaves the graph store and the run store as
\* they were (no id becomes resolvable, no run is created); with a start_node
\* among the node ids it adds the definition (name, start_node, the supplied
\* nodes by id) under an id that was not in the store and is in it afterwards
\* (the test run_graph resolves it by), and changes no other graph.  Every stored graph has its
\* start_node among its nodes.
C14_CreateGraphChecksStart ==
    /\ [](\A g \in DOMAIN graphs : graphs[g].start_node \in DOMAIN graphs[g].nodes)
    /\ [][\A req \in GraphRequests :
            CreateGraph(req) =>
               IF req.start_node \notin NodeIds(req)
               THEN /\ response' = StartNodeError
                    /\ graphs' = graphs
                    /\ runs' = runs
               ELSE LET id == Len(graphs) + 1
                    IN /\ response' = "ok"
                       /\ id \notin DOMAIN graphs
                       /\ id \in DOMAIN graphs'
                       /\ \A g \in DOMAIN graphs : graphs'[g] = graphs[g]
                       /\ DOMAIN graphs' = DOMAIN graphs \cup {id}
                       /\ graphs'[id].name = req.name
                       /\ graphs'[id].start_node = req.start_node
                       /\ DOMAIN graphs'[id].nodes = NodeIds(req)
                       /\ runs' = runs
         ]_vars

\* create_graph has just rejected a request on an engine with no graph: the
\* graph store and the run store are still empty.
C14_Witness ==
    /\ response = StartNodeError
    /\ graphs = <<>>
    /\ runs = <<>>

\* C15: run_graph with a graph id that is not in the graph store raises the
\* graph-not-found error at the call, and get_run with a run id that is not in
\* the run store raises the run-not-found error; either leaves the run store
\* (no record is created, no tool call is recorded in any run), the graph
\* store, the registry and the caller's objects as they were.
C15_LookupErrors ==
    [][ /\ \A g \in 1..(MaxGraphs + 1), s \in InitialStates, m \in (-1)..MaxSteps :
             (g \notin DOMAIN graphs /\ RunGraph(g, s, m)) =>
                 /\ response' = GraphNotFound
                 /\ runs' = runs
                 /\ UNCHANGED <<tools, graphs, heap>>
        /\ \A r \in 1..(MaxRuns + 1) :
             (r \notin DOMAIN runs /\ GetRun(r)) =>
                 /\ response' = RunNotFound
                 /\ runs' = runs
                 /\ UNCHANGED <<tools, graphs, heap>>
      ]_vars

\* run_graph has just been refused for an id that is not in the store, on an
\* engine that has one graph and a registered tool: there is no run record.
C15_Witness ==
    /\ response = GraphNotFound
    /\ Len(graphs) = 1
    /\ "t1" \in DOMAIN tools
    /\ runs = <<>>

\* The tool call a step added to the record of run r: <<>> if none, else <<c>>.
NewCall(r) ==
    LET before == IF r \in DOMAIN runs THEN Len(runs[r].calls) ELSE 0
    IN IF Len(runs'[r].calls) = before
       THEN <<>>
       ELSE <<runs'[r].calls[Len(runs'[r].calls)]>>

\* The step began a loop iteration of run r (line 110).
StepBegun(r) ==
    (IF r \in DOMAIN runs THEN runs[r].step_counter ELSE 0) < runs'[r].step_counter

\* C16: tool names are resolved when a node executes.  create_graph accepts a
\* graph whatever the registry holds; register binds the name to the callable
\* given, replacing an earlier binding and touching no other name; a run calls
\* a tool only in an iteration it begins, and an iteration begun at a node of
\* the graph calls the callable the node's tool_name is bound to in the
\* registry at that moment (the last one registered, whether that was before
\* or after the graph was created or the run started) or, if the name is not
\* bound at that moment, makes no call and fails the run with ValueError.
C16_LazyToolResolution ==
    [][ /\ \A c \in RegisterCalls :
              Register(c[1], c[2]) =>
                 /\ tools'[c[1]] = c[2]
                 /\ DOMAIN tools' = DOMAIN tools \cup {c[1]}
                 /\ \A k \in DOMAIN tools : k # c[1] => tools'[k] = tools[k]
        /\ \A req \in GraphRequests :
              (req.start_node \in NodeIds(req) /\ CreateGraph(req)) =>
                 /\ Len(graphs') = Len(graphs) + 1
                 /\ response' = "ok"
        /\ \A r \in DOMAIN runs' :
              LET call == NewCall(r)
                  nodes == graphs[runs'[r].graph_id].nodes
                  current == runs'[r].current
              IN /\ ~StepBegun(r) => call = <<>>
                 /\ (StepBegun(r) /\ current \in DOMAIN nodes) =>
                       IF nodes[current].tool_name \in DOMAIN tools
                       THEN /\ call = << <<current, tools[nodes[current].tool_name]>> >>
                            /\ runs'[r].error = ""
                            /\ runs'[r].pc = "await"
                       ELSE /\ call = <<>>
                            /\ runs'[r].error = "ValueError"
                            /\ runs'[r].status = "failed"
      ]_vars

\* A run of the graph whose node A repeats itself has called tool t1 twice: the
\* first call went to inc, t1 was then re-registered, and the second call went
\* to boom.
C16_Witness ==
    \E r \in DOMAIN runs :
        /\ runs[r].calls = << <<"A", "inc">>, <<"A", "boom">> >>
        /\ tools["t1"] = "boom"

\* The log entries of the run for a node whose condition tests, with one of
\* ops, a key that the entry's state does not hold.
AbsentKeyEntries(run, ops) ==
    {i \in DOMAIN run.log :
        LET node == graphs[run.graph_id].nodes[run.log[i].node_id]
        IN /\ node.condition # <<>>
           /\ node.condition[1].op \in ops
           /\ node.condition[1].key \notin DOMAIN run.log[i].state}

\* C17: a condition on a key the state does not hold is evaluated with None on
\* the left.  With lt, le, gt or ge against a number the step raises TypeError:
\* no such step is ever logged, and a run whose tool has returned at a node with
\* such a condition, the merged state lacking the key, is failed with
\* TypeError and has no entry for that step.  With eq against a value (never
\* None here) the step is logged with false_next, with ne with true_next.
C17_AbsentKey ==
    \A r \in DOMAIN runs :
        LET run == runs[r]
            nodes == graphs[run.graph_id].nodes
        IN /\ AbsentKeyEntries(run, {"lt", "le", "gt", "ge"}) = {}
           /\ \A i \in AbsentKeyEntries(run, {"eq"}) :
                 run.log[i].next_node = nodes[run.log[i].node_id].condition[1].false_next
           /\ \A i \in AbsentKeyEntries(run, {"ne"}) :
                 run.log[i].next_node = nodes[run.log[i].node_id].condition[1].true_next
           /\ (/\ Len(run.outs) = Len(run.calls)
               /\ run.outs # <<>>
               /\ ~run.outs[Len(run.outs)].raised
               /\ run.node[1].condition # <<>>
               /\ run.node[1].condition[1].key \notin DOMAIN run.state)
              => IF run.node[1].condition[1].op \in {"lt", "le", "gt", "ge"}
                 THEN /\ run.status = "failed"
                      /\ run.error = "TypeError"
                      /\ Len(run.log) = run.step_counter - 1
                 ELSE /\ run.error # "TypeError"
                      /\ Len(run.log) >= Len(run.outs)

\* A run whose node A orders the key x against 8 has failed with TypeError at
\* its first step: the tool returned and its output is merged, the state has
\* no x, and nothing is logged.
C17_Witness ==
    \E r \in DOMAIN runs :
        /\ graphs[runs[r].graph_id].name = "condlt"
        /\ runs[r].status = "failed" /\ runs[r].error = "TypeError"
        /\ runs[r].state = [n |-> 1]
        /\ Len(runs[r].outs) = 1 /\ runs[r].log = <<>>

\* C18: run_graph works on a copy of the caller's initial state: no step of any
\* run (the run's own tool calls and merges, or those of another run started
\* from the same mapping) changes what the mapping a caller passed reads, in
\* its keys or in any value, the contents of a list it refers to included;
\* hence it reads after the run, completed or failed, what it read at the call.
C18_InitialStateUntouched ==
    [][\A r \in DOMAIN runs' :
          /\ r \in DOMAIN runs => runs'[r].initial_state = runs[r].initial_state
          /\ Deref(runs'[r].initial_state, heap') = Deref(runs'[r].initial_state, heap)
      ]_vars

\* C19: the log of every run is a chain through its graph: the first entry is
\* for the graph's start_node; each later entry is for the node the entry
\* before it resolved as next_node; every entry is for a node of the graph and
\* carries that node's tool_name; only the last entry may have next_node None;
\* and a completed run whose last entry resolved a successor other than None
\* has exactly max_steps entries.
C19_TraceChain ==
    \A r \in DOMAIN runs :
        LET run == runs[r]
            graph == graphs[run.graph_id]
            n == Len(run.log)
        IN n >= 1 =>
             /\ run.log[1].node_id = graph.start_node
             /\ \A i \in 1..(n - 1) :
                   /\ run.log[i + 1].node_id = run.log[i].next_node
                   /\ run.log[i].next_node # NoneRef
             /\ \A i \in 1..n :
                   /\ run.log[i].node_id \in DOMAIN graph.nodes
                   /\ run.log[i].tool_name = graph.nodes[run.log[i].node_id].tool_name
             /\ (run.status = "completed" /\ run.log[n].next_node # NoneRef)
                   => n = run.max_steps

\* The linear graph walked to its end: the log is A (next B), then B (next
\* None), with the tool names of the two nodes.
C19_Witness ==
    \E r \in DOMAIN runs :
        /\ graphs[runs[r].graph_id].name = "linear"
        /\ runs[r].status = "completed"
        /\ Len(runs[r].log) = 2
        /\ runs[r].log[1].node_id = "A" /\ runs[r].log[1].next_node = "B"
        /\ runs[r].log[1].tool_name = "t1"
        /\ runs[r].log[2].node_id = "B" /\ runs[r].log[2].next_node = NoneRef
        /\ runs[r].log[2].tool_name = "t2"

\* max(max_steps, 0)
Budget(run) == IF run.max_steps > 0 THEN run.max_steps ELSE 0

\* C20: in every reachable state the tool calls a run has made, its log entries
\* and the iterations it has begun number at most max(max_steps, 0); a run
\* started with max_steps <= 0 has called no tool, has an empty log, has the
\* initial state as its state and is completed, its start_node never executed.
C20_BudgetBound ==
    \A r \in DOMAIN runs :
        /\ Len(runs[r].calls) <= Budget(runs[r])
        /\ Len(runs[r].log) <= Budget(runs[r])
        /\ runs[r].step_counter <= Budget(runs[r])
        /\ runs[r].max_steps <= 0 =>
              /\ runs[r].calls = <<>>
              /\ runs[r].log = <<>>
              /\ runs[r].state = runs[r].initial_state
              /\ runs[r].status = "completed"
              /\ runs[r].pc = "returned"
              /\ runs[r].current = graphs[runs[r].graph_id].start_node

\* A run started with max_steps = -1 from {n: 1, x: 7}, with the tool of its
\* start node registered: it is completed with no call and no entry.
C20_Witness ==
    \E r \in DOMAIN runs :
        /\ runs[r].max_steps = -1
        /\ runs[r].initial_state = [n |-> 1, x |-> 7]
        /\ runs[r].status = "completed"
        /\ runs[r].calls = <<>> /\ runs[r].log = <<>>
        /\ runs[r].state = [n |-> 1, x |-> 7]
        /\ "t1" \in DOMAIN tools

====
